---- MODULE Spec2Model ----
(***************************************************************************)
(* set4/challenge25.py: the SessionOracle (AES-CTR under one random key    *)
(* and nonce, with encrypt and the seek-and-splice edit) and the attacker  *)
(* side function decrypt(oracle, ct) that recovers a plaintext through     *)
(* edit alone.                                                             *)
(*                                                                         *)
(* A Python 2 str is a sequence of bytes 0..255.  TLA+ sequences are       *)
(* 1-indexed; Python positions are 0-indexed, so Python position i is      *)
(* element i+1 here.                                                       *)
(***************************************************************************)
EXTENDS Integers, Sequences, FiniteSets, TLC

\* ------------------------------------------------------------------ bounds
\* longest of the short strings: short plaintexts, caller-made ciphertexts, newtexts
MaxLen == 2
\* the long plaintexts span up to MaxBlocks whole cipher blocks plus a tail
MaxBlocks == 2

\* ------------------------------------------------------- program constants
BLOCKSIZE == 16
\* ord('A'), the probe byte of decrypt
ProbeByte == 65

Min(a, b) == IF a < b THEN a ELSE b
Max(a, b) == IF a > b THEN a ELSE b

\* the n-byte string a, a+d, a+2d, ... (mod 256)
Text(n, a, d) == [i \in 1..n |-> (a + (i - 1) * d) % 256]

\* block-aligned, one past a block, and (with MaxBlocks = 2) 37 bytes
LongLens ==
    {BLOCKSIZE} \cup {n * BLOCKSIZE + 1 : n \in 1..(MaxBlocks - 1)} \cup {MaxBlocks * BLOCKSIZE + 5}

\* input_pt of __main__
MainTexts == {Text(n, 7, 29) : n \in LongLens}
\* plaintexts of the other encrypt calls: 'A'*n (the probe itself), short and
\* long strings that differ from MainTexts byte by byte
Plaintexts ==
    {Text(n, ProbeByte, 0) : n \in 0..MaxLen} \cup {Text(n, 84, 57) : n \in 1..MaxLen}
        \cup MainTexts
        \cup {Text(n * BLOCKSIZE + 1, 200, 3) : n \in 1..(MaxBlocks - 1)}
ArgCts == {Text(n, 129, 83) : n \in 0..MaxLen}
NewTexts == {Text(n, ProbeByte, 101) : n \in 0..MaxLen}
Offsets == {-1, 0, 1, MaxLen, MaxLen + 1, BLOCKSIZE}

\* ------------------------------------------------------------------ state
VARIABLES
    key,      \* SessionOracle.__key
    nonce,    \* SessionOracle.__nonce
    cipher,   \* SessionOracle.__cipher
    key0,     \* history: the key drawn at construction
    nonce0,   \* history: the nonce drawn at construction
    store,    \* __main__: input_pt and ct = oracle.encrypt(input_pt)
    last,     \* the call that returned last, its arguments and result (none while decrypt runs)
    pc,       \* position inside decrypt(oracle, ct): "idle", "probe", "edited"
    rec,      \* locals of the running decrypt: ct, new_pt, xorstr(ct, new_pt), edit's answer
    calls     \* history: oracle methods invoked by the running decrypt, in order

vars == <<key, nonce, cipher, key0, nonce0, store, last, pc, rec, calls>>

\* ------------------------------------------------------------ byte helpers
\* c1 ^ c2 on ints, bit by bit
RECURSIVE BitXor(_, _)
BitXor(a, b) ==
    IF a = 0 /\ b = 0 THEN 0
    ELSE (((a % 2) + (b % 2)) % 2) + 2 * BitXor(a \div 2, b \div 2)

\* ^ on bytes, tabulated once
ByteXor == [a \in 0..255 |-> [b \in 0..255 |-> BitXor(a, b)]]

\* xor with + in place of ^
xor_add(c1, c2) == (c1 + c2) % 256

\* xorstr.xor: chr(ord(c1) ^ ord(c2))
xor(c1, c2) == ByteXor[c1][c2]

\* the value standing for a raised IndexError (no byte string holds -1)
IndexError == <<-1>>

\* xorstr(s1, s2): one byte per index of s1; s2[i] past the end of s2 raises
xorstr(s1, s2) ==
    IF s1 = IndexError \/ s2 = IndexError THEN IndexError
    ELSE IF Len(s2) < Len(s1) THEN IndexError
    ELSE [i \in 1..Len(s1) |-> xor(s1[i], s2[i])]

\* rand_bytes(strlen): the strings random.randint may produce; two of them,
\* one of which (all 0xff) makes the CTR counter wrap after the first block
rand_bytes(strlen) ==
    {[i \in 1..strlen |-> 255], [i \in 1..strlen |-> (i * 37 + 11) % 256]}

\* ------------------------------------------------------------- AES in CTR
\* The block cipher of the cryptography library, as a deterministic function
\* of (key, input block) giving BLOCKSIZE bytes: a stand-in that mixes the
\* ends of the key and the low-order (fastest changing) bytes of the block.
AESBlock(k, block) ==
    [b \in 1..BLOCKSIZE |->
        (k[1] * 3 + k[Len(k)] * 5 + block[Len(block)] * (2 * b + 1)
           + block[Len(block) - 1] * 7 + block[1] * 13 + b * b * 11 + 99) % 256]

\* CTR increments the counter block as a big-endian integer, wrapping
RECURSIVE CtrIncAt(_, _)
CtrIncAt(c, n) ==
    IF n = 0 THEN c
    ELSE IF c[n] = 255 THEN CtrIncAt([c EXCEPT ![n] = 0], n - 1)
    ELSE [c EXCEPT ![n] = c[n] + 1]

CtrInc(c) == CtrIncAt(c, Len(c))

\* the counter block j increments on
RECURSIVE CtrAdd(_, _)
CtrAdd(c, j) == IF j = 0 THEN c ELSE CtrAdd(CtrInc(c), j - 1)

\* Cipher(algorithms.AES(key), modes.CTR(nonce)): the cipher object
Cipher(k, n) == [key |-> k, nonce |-> n]

\* a context that carries on where the encryption kept by __main__ stopped,
\* as one encryptor shared by all calls would
Context_shared(c) ==
    [key |-> c.key, counter |-> CtrAdd(c.nonce, (Len(store.ct) + BLOCKSIZE - 1) \div BLOCKSIZE)]

\* cipher.encryptor() / cipher.decryptor(): a fresh context whose counter is
\* the nonce; CTR decryption is the same operation as encryption
Context(c) == [key |-> c.key, counter |-> c.nonce]

\* update that never advances the counter: every block gets the first
\* block's keystream
RECURSIVE Update_nocount(_, _)
Update_nocount(ctx, data) ==
    IF Len(data) = 0 THEN <<>>
    ELSE LET blk == AESBlock(ctx.key, ctx.counter)
             n == Min(BLOCKSIZE, Len(data))
         IN  [i \in 1..n |-> ByteXor[data[i]][blk[i]]]
             \o Update_nocount(ctx, SubSeq(data, n + 1, Len(data)))

\* context.update(data) + context.finalize(): XOR with the keystream, block
\* after block
RECURSIVE Update(_, _)
Update(ctx, data) ==
    IF Len(data) = 0 THEN <<>>
    ELSE LET blk == AESBlock(ctx.key, ctx.counter)
             n == Min(BLOCKSIZE, Len(data))
         IN  [i \in 1..n |-> ByteXor[data[i]][blk[i]]]
             \o Update([ctx EXCEPT !.counter = CtrInc(ctx.counter)],
                       SubSeq(data, n + 1, Len(data)))

\* SessionOracle.encrypt(pt)
encrypt(c, pt) == Update(Context(c), pt)

\* a decryptor whose counter starts one block late
SessionDecrypt_late(c, ct) == Update([key |-> c.key, counter |-> CtrInc(c.nonce)], ct)

\* SessionOracle.__decrypt(ct)
SessionDecrypt(c, ct) == Update(Context(c), ct)

\* s[:k+1] in place of s[:k]
SliceTo_incl(s, k) ==
    LET e == IF k + 1 < 0 THEN Max(Len(s) + k + 1, 0) ELSE Min(k + 1, Len(s))
    IN  SubSeq(s, 1, e)

\* s[j+1:] in place of s[j:]
SliceFrom_skip(s, j) ==
    LET b == IF j + 1 < 0 THEN Max(Len(s) + j + 1, 0) ELSE Min(j + 1, Len(s))
    IN  SubSeq(s, b + 1, Len(s))

\* Python slices s[:k] and s[j:], negative and out-of-range indices included
SliceTo(s, k) ==
    LET e == IF k < 0 THEN Max(Len(s) + k, 0) ELSE Min(k, Len(s))
    IN  SubSeq(s, 1, e)

SliceFrom(s, j) ==
    LET b == IF j < 0 THEN Max(Len(s) + j, 0) ELSE Min(j, Len(s))
    IN  SubSeq(s, b + 1, Len(s))

\* an insertion, pt[:offset] + newtext + pt[offset:], in place of the overwrite
Splice_insert(pt, offset, newtext) ==
    SubSeq(pt, 1, IF offset < 0 THEN Max(Len(pt) + offset, 0) ELSE Min(offset, Len(pt)))
        \o newtext
        \o SubSeq(pt, (IF offset < 0 THEN Max(Len(pt) + offset, 0) ELSE Min(offset, Len(pt))) + 1,
                  Len(pt))

\* pt[:offset] + newtext + pt[offset+len(newtext):]
Splice(pt, offset, newtext) ==
    SliceTo(pt, offset) \o newtext \o SliceFrom(pt, offset + Len(newtext))

\* SessionOracle.edit(ct, offset, newtext)
edit(c, ct, offset, newtext) ==
    LET pt == SessionDecrypt(c, ct)
        ptnew == Splice(pt, offset, newtext)
    IN  encrypt(c, ptnew)

\* a probe one byte longer than the ciphertext
new_pt_long(ct) == [i \in 1..(Len(ct) + 1) |-> ProbeByte]

\* new_pt = 'A'*len(ct)
new_pt(ct) == [i \in 1..Len(ct) |-> ProbeByte]

\* ------------------------------------------------------------ operations
NoCall == [op |-> "none", pt |-> <<>>, ct |-> <<>>, offset |-> 0, newtext |-> <<>>,
           ret |-> <<>>, err |-> "none", calls |-> <<>>, by |-> "caller", again |-> FALSE]

NoRec == [ct |-> <<>>, new_pt |-> <<>>, tmp |-> <<>>, edited |-> <<>>]

\* SessionOracle.__init__ and nothing else yet
Init ==
    /\ key \in rand_bytes(BLOCKSIZE)
    /\ nonce \in rand_bytes(BLOCKSIZE)
    /\ cipher = Cipher(key, nonce)
    /\ key0 = key
    /\ nonce0 = nonce
    /\ store = [pt |-> <<>>, ct |-> <<>>]
    /\ last = NoCall
    /\ pc = "idle"
    /\ rec = NoRec
    /\ calls = <<>>

\* a direct oracle.encrypt(pt) by any caller
Encrypt(pt) ==
    /\ pc = "idle"
    /\ last' = [NoCall EXCEPT !.op = "encrypt", !.pt = pt, !.ret = encrypt(cipher, pt)]
    /\ UNCHANGED <<key, nonce, cipher, key0, nonce0, store, pc, rec, calls>>

\* __main__: ct = oracle.encrypt(input_pt), the pair the attack is run on
MainEncrypt(pt) ==
    /\ pc = "idle"
    /\ last' = [NoCall EXCEPT !.op = "encrypt", !.pt = pt, !.ret = encrypt(cipher, pt),
                              !.by = "main"]
    /\ store' = [pt |-> pt, ct |-> encrypt(cipher, pt)]
    /\ UNCHANGED <<key, nonce, cipher, key0, nonce0, pc, rec, calls>>

\* a direct oracle.edit(ct, offset, newtext); the code has no range check and
\* no failure path, so every call returns a string
Edit(ct, offset, newtext) ==
    /\ pc = "idle"
    /\ last' = [NoCall EXCEPT !.op = "edit", !.ct = ct, !.offset = offset,
                              !.newtext = newtext,
                              !.ret = edit(cipher, ct, offset, newtext)]
    /\ UNCHANGED <<key, nonce, cipher, key0, nonce0, store, pc, rec, calls>>

\* the caller hands the ciphertext edit returned back to edit, once, with the
\* same offset and newtext
EditAgain ==
    /\ pc = "idle"
    /\ last.op = "edit"
    /\ ~last.again
    /\ last' = [NoCall EXCEPT !.op = "edit", !.ct = last.ret, !.offset = last.offset,
                              !.newtext = last.newtext, !.again = TRUE,
                              !.ret = edit(cipher, last.ret, last.offset, last.newtext)]
    /\ UNCHANGED <<key, nonce, cipher, key0, nonce0, store, pc, rec, calls>>

\* decrypt(oracle, ct), up to the evaluation of the first argument of the
\* outer xorstr: new_pt = 'A'*len(ct); xorstr(ct, new_pt)
DecryptProbe(ct) ==
    /\ pc = "idle"
    /\ LET p == new_pt(ct)
           t == xorstr(ct, p)
       IN  IF t = IndexError
           THEN /\ pc' = "idle"
                /\ rec' = NoRec
                /\ last' = [NoCall EXCEPT !.op = "decrypt", !.ct = ct, !.newtext = p,
                                          !.err = "IndexError", !.calls = <<>>]
           ELSE /\ pc' = "probe"
                /\ rec' = [ct |-> ct, new_pt |-> p, tmp |-> t, edited |-> <<>>]
                /\ last' = NoCall
    /\ calls' = <<>>
    /\ UNCHANGED <<key, nonce, cipher, key0, nonce0, store>>

\* decrypt: the second argument of the outer xorstr, oracle.edit(ct, 0, new_pt)
DecryptEdit ==
    /\ pc = "probe"
    /\ rec' = [rec EXCEPT !.edited = edit(cipher, rec.ct, 0, rec.new_pt)]
    /\ calls' = Append(calls, [op |-> "edit", ct |-> rec.ct, offset |-> 0,
                               newtext |-> rec.new_pt])
    /\ pc' = "edited"
    /\ UNCHANGED <<key, nonce, cipher, key0, nonce0, store, last>>

\* decrypt: the outer xorstr and the return
DecryptReturn ==
    /\ pc = "edited"
    /\ LET r == xorstr(rec.tmp, rec.edited)
       IN  last' = [NoCall EXCEPT !.op = "decrypt", !.ct = rec.ct, !.newtext = rec.new_pt,
                                  !.ret = IF r = IndexError THEN <<>> ELSE r,
                                  !.err = IF r = IndexError THEN "IndexError" ELSE "none",
                                  !.calls = calls]
    /\ pc' = "idle"
    /\ rec' = NoRec
    /\ calls' = <<>>
    /\ UNCHANGED <<key, nonce, cipher, key0, nonce0, store>>

\* the ciphertexts a caller can hand in: the one it got from the oracle, or any string
Ciphertexts == {store.ct} \cup ArgCts

Next ==
    \/ \E pt \in Plaintexts : Encrypt(pt)
    \/ \E pt \in MainTexts : MainEncrypt(pt)
    \/ \E ct \in Ciphertexts, offset \in Offsets, newtext \in NewTexts : Edit(ct, offset, newtext)
    \/ EditAgain
    \/ \E ct \in Ciphertexts : DecryptProbe(ct)
    \/ DecryptEdit
    \/ DecryptReturn

Spec == Init /\ [][Next]_vars

\* ------------------------------------------------- vocabulary of the claims
\* offset >= 0 and offset + len(newtext) <= len(ct)
InRange(ct, offset, newtext) == offset >= 0 /\ offset + Len(newtext) <= Len(ct)

\* keystream[i] of the oracle, i counted from 0: byte i % 16 of the cipher
\* block of counter value nonce + i / 16
Keystream(c, i) == AESBlock(c.key, CtrAdd(c.nonce, i \div BLOCKSIZE))[(i % BLOCKSIZE) + 1]

\* pt with the bytes at positions [offset, offset+len(newtext)) replaced
Overwrite(pt, offset, newtext) ==
    [i \in 1..Len(pt) |->
        IF offset < i /\ i <= offset + Len(newtext) THEN newtext[i - offset] ELSE pt[i]]

\* ct with only the bytes of the overwritten range recomputed
XorPatch(c, ct, offset, newtext) ==
    [i \in 1..Len(ct) |->
        IF offset < i /\ i <= offset + Len(newtext)
        THEN ByteXor[newtext[i - offset]][Keystream(c, i - 1)]
        ELSE ct[i]]

LastEditInRange == last.op = "edit" /\ InRange(last.ct, last.offset, last.newtext)

\* ------------------------------------------------------------------ claims

\* C1: decrypt(oracle, C) with C = oracle.encrypt(P) returns exactly P, for
\* every length of P (0, block-aligned or not) and every key/nonce: the
\* value returned encrypts to the ciphertext handed in, and it is input_pt
\* when the ciphertext is the one __main__ got from encrypt.
FullRecovery ==
    last.op = "decrypt" =>
        /\ last.err = "none"
        /\ Len(last.ret) = Len(last.ct)
        /\ encrypt(cipher, last.ret) = last.ct
        /\ (last.ct = store.ct => last.ret = store.pt)

FullRecoveryWitness ==
    /\ last.op = "decrypt"
    /\ last.ct = store.ct
    /\ last.ret = store.pt
    /\ Len(store.pt) > BLOCKSIZE
    /\ Len(store.pt) % BLOCKSIZE # 0
    /\ nonce = [i \in 1..BLOCKSIZE |-> 255]

\* C2: an in-range edit returns a ciphertext of the length of its input that
\* is the encryption from position 0 of the decrypted input with the range
\* overwritten; each byte of the range is newtext XOR keystream.
EditContract ==
    LastEditInRange =>
        /\ Len(last.ret) = Len(last.ct)
        /\ last.ret = encrypt(cipher, Overwrite(SessionDecrypt(cipher, last.ct),
                                                last.offset, last.newtext))
        /\ \A i \in last.offset .. (last.offset + Len(last.newtext) - 1) :
              last.ret[i + 1] = ByteXor[last.newtext[i - last.offset + 1]][Keystream(cipher, i)]

EditContractWitness ==
    /\ LastEditInRange
    /\ last.offset = BLOCKSIZE
    /\ Len(last.newtext) = MaxLen
    /\ Len(last.ct) > BLOCKSIZE + MaxLen
    /\ last.ret # last.ct

\* C3: an edit with offset + len(newtext) > len(C) or offset < 0 is rejected
\* with InvalidRange and returns no ciphertext, the key and nonce unchanged.
BoundaryRejection ==
    (last.op = "edit" /\ ~InRange(last.ct, last.offset, last.newtext)) =>
        /\ last.err = "InvalidRange"
        /\ last.ret = <<>>
        /\ key = key0 /\ nonce = nonce0

\* C4: the oracle's own decrypt undoes encrypt and encrypt undoes decrypt,
\* each call starting at the stream origin.
RoundTrip ==
    /\ last.op = "encrypt" => SessionDecrypt(cipher, last.ret) = last.pt
    /\ last.op \in {"edit", "decrypt"} =>
          encrypt(cipher, SessionDecrypt(cipher, last.ct)) = last.ct

RoundTripWitness ==
    /\ last.op = "encrypt"
    /\ Len(last.pt) > 2 * BLOCKSIZE
    /\ last.ret # last.pt
    /\ SessionDecrypt(cipher, last.ret) = last.pt

\* C5: encrypt(P1)[i] XOR P1[i] = encrypt(P2)[i] XOR P2[i] for every
\* i < min(len(P1), len(P2)), and that byte is the keystream byte of
\* (key, nonce, i) whatever the plaintext and its length.
KeystreamDeterminism ==
    last.op = "encrypt" =>
        /\ \A i \in 1..Min(Len(last.pt), Len(store.pt)) :
              ByteXor[last.ret[i]][last.pt[i]] = ByteXor[store.ct[i]][store.pt[i]]
        /\ \A i \in 1..Len(last.pt) :
              ByteXor[last.ret[i]][last.pt[i]] = Keystream(cipher, i - 1)

KeystreamDeterminismWitness ==
    /\ last.op = "encrypt"
    /\ last.by = "caller"
    /\ Len(last.pt) > BLOCKSIZE
    /\ Len(store.pt) > BLOCKSIZE
    /\ Len(last.pt) # Len(store.pt)
    /\ \A i \in 1..Min(Len(last.pt), Len(store.pt)) : last.pt[i] # store.pt[i]

\* C6: an in-range edit applied again to its own result, with the same
\* offset and newtext, returns that result.
EditIdempotent ==
    LastEditInRange =>
        /\ edit(cipher, last.ret, last.offset, last.newtext) = last.ret
        /\ (last.again => last.ret = last.ct)

EditIdempotentWitness ==
    /\ LastEditInRange
    /\ last.again
    /\ Len(last.newtext) > 0
    /\ last.offset > 0
    /\ last.ret = last.ct

\* C8: after any calls the key, the nonce and the cipher are those of
\* construction, a call's keystream starts at position 0, and encrypt gives
\* the same ciphertext for the same plaintext whatever preceded it.
SessionReadOnly ==
    /\ key = key0
    /\ nonce = nonce0
    /\ cipher = Cipher(key0, nonce0)
    /\ last.op = "encrypt" =>
          /\ \A i \in 1..Len(last.pt) :
                last.ret[i] = ByteXor[last.pt[i]][Keystream(Cipher(key0, nonce0), i - 1)]
          /\ (last.pt = store.pt => last.ret = store.ct)

SessionReadOnlyWitness ==
    /\ last.op = "encrypt"
    /\ last.by = "caller"
    /\ last.pt = store.pt
    /\ last.ret = store.ct
    /\ Len(last.pt) > BLOCKSIZE

\* C9: an in-range edit leaves every byte outside the range as it was, so
\* its result is the input with only the range patched; an empty newtext
\* returns the input.
EditFrame ==
    LastEditInRange =>
        /\ \A i \in 1..Len(last.ct) :
              (i <= last.offset \/ i > last.offset + Len(last.newtext)) =>
                  (i <= Len(last.ret) /\ last.ret[i] = last.ct[i])
        /\ last.ret = XorPatch(cipher, last.ct, last.offset, last.newtext)
        /\ (last.newtext = <<>> => last.ret = last.ct)

EditFrameWitness ==
    /\ LastEditInRange
    /\ ~last.again
    /\ last.offset = 1
    /\ Len(last.newtext) = 1
    /\ Len(last.ct) > BLOCKSIZE
    /\ last.ret # last.ct

\* C10: a run of decrypt calls the oracle exactly once, edit(ct, 0, probe)
\* with len(probe) = len(ct) (so in range), never encrypt or the private
\* decrypt, and returns only after that call.
SingleProbe ==
    /\ Len(calls) <= 1
    /\ pc = "idle" => calls = <<>>
    /\ pc = "probe" => calls = <<>>
    /\ pc = "edited" =>
          calls = <<[op |-> "edit", ct |-> rec.ct, offset |-> 0, newtext |-> rec.new_pt]>>
    /\ pc # "idle" =>
          /\ Len(rec.new_pt) = Len(rec.ct)
          /\ InRange(rec.ct, 0, rec.new_pt)
    /\ last.op = "decrypt" =>
          /\ last.calls = <<[op |-> "edit", ct |-> last.ct, offset |-> 0,
                             newtext |-> last.newtext]>>
          /\ Len(last.newtext) = Len(last.ct)
          /\ InRange(last.ct, 0, last.newtext)

SingleProbeWitness ==
    /\ last.op = "decrypt"
    /\ Len(last.calls) = 1
    /\ Len(last.ct) = MaxLen
    /\ last.ct # store.ct
====
